---------------------------- MODULE Spec2Model ----------------------------
(***************************************************************************)
(* make_alpine_rpi: partition planning for a block device.                 *)
(*                                                                         *)
(* The model follows partition_device (make_alpine_rpi.py) and the         *)
(* geometry helpers of util.py statement by statement.  The environment    *)
(* (what the path designates, what sysfs reports) is chosen in Init and    *)
(* never changes; the program state is the position in partition_device,   *)
(* its local variables, the parted script it builds and the parted         *)
(* invocations it has made.  partition_device is entered either on its own *)
(* or from main; for main the state also holds the command line, the       *)
(* download cache and the position in check_update_cached_alpine_iso.      *)
(***************************************************************************)
EXTENDS Integers, Sequences, FiniteSets, TLC

(***************************************************************************)
(* Bounds of the environment.                                              *)
(***************************************************************************)
MaxOptUnits == 8       \* optimal_io_size ranges over 0..MaxOptUnits units of 512 bytes
MaxAlignUnits == 1     \* alignment_offset ranges over 0..MaxAlignUnits units of 512 bytes
MaxSizeUnits == 3      \* device size ranges over 0..MaxSizeUnits units of 128 MiB

PhysBlockSizes == {512, 4096}
OptimalIoSizes == {k * 512 : k \in 0..MaxOptUnits}
AlignmentOffsets == {k * 512 : k \in 0..MaxAlignUnits}
DeviceSizes == {k * 262144 : k \in 0..MaxSizeUnits}   \* /sys/class/block/<dev>/size, 512-byte sectors
DevKinds == {"missing", "regular", "block"}
Entries == {"main", "partition_device"}
Commands == {"", "init", "file", "liveimage", "other"}   \* args.command
ImageSizes == {"absent", "bad"}   \* --imagesize: absent or parseable, or one parse_size rejects
ReturnCodes == {0, 1}             \* exit status of 'sha256sum -c'

(***************************************************************************)
(* Program constants.                                                      *)
(***************************************************************************)
sd_part0_size == 1024
sd_part1_size_bytes == 256 * 1024 * 1024
default_alignment_boundary == 1024 * 1024

VARIABLES
    entry,             \* the function the run starts in
    args,              \* the parsed command line of main
    cache,             \* the cache directory and what sha256sum would report on it
    alpinefile,        \* what check_update_cached_alpine_iso returned, "none" before
    checksum_calls,    \* the outcomes of the check_checksums calls, in order
    downloads,         \* the number of curl runs
    exit_status,       \* the argument of sys.exit, "none" while running
    partition_device_called,
    dev_kind,          \* what blockdev designates: nothing, a non-block file, a block-special file
    dev_name_ok,       \* whether blockdev matches "\/dev\/(\w+)"
    sysfs,             \* what /sys reports for the device
    pc,                \* position in partition_device
    error,             \* the exception partition_device raised, "none" while running
    geometry_queries,  \* the geometry helpers called so far, in order
    blockdev_info,     \* blockvals returned by block_device_info
    total_size_sectors,
    sd_part0_size_sectors,
    sd_part1_offset_sectors,
    sd_part1_size_sectors,
    sd_part2_alignment_remainder,
    sd_part2_alignment_fix,
    sd_part2_offset_sectors,
    sd_part2_size_sectors,
    parted_script,     \* the script string, as its sequence of space-terminated words
    parted_runs        \* the scripts handed to 'sudo parted --script <blockdev>', in order

env == <<dev_kind, dev_name_ok, sysfs>>
caller == <<entry, args, cache, alpinefile, checksum_calls, downloads, exit_status,
            partition_device_called>>
locals == <<total_size_sectors, sd_part0_size_sectors, sd_part1_offset_sectors,
            sd_part1_size_sectors, sd_part2_alignment_remainder, sd_part2_alignment_fix,
            sd_part2_offset_sectors, sd_part2_size_sectors>>
vars == <<entry, args, cache, alpinefile, checksum_calls, downloads, exit_status,
          partition_device_called, dev_kind, dev_name_ok, sysfs, pc, error, geometry_queries, blockdev_info,
          total_size_sectors, sd_part0_size_sectors, sd_part1_offset_sectors,
          sd_part1_size_sectors, sd_part2_alignment_remainder, sd_part2_alignment_fix,
          sd_part2_offset_sectors, sd_part2_size_sectors, parted_script, parted_runs>>

(***************************************************************************)
(* util.py                                                                 *)
(***************************************************************************)

\* int(a / b) for a >= 0, b > 0: true division, then truncation.
IntDiv(a, b) == a \div b

\* legal_block_dev_file without the S_ISBLK test
legal_block_dev_file_exists_only(kind) == kind # "missing"

\* os.path.exists(dev) and stat.S_ISBLK(os.stat(dev).st_mode)
legal_block_dev_file(kind) == kind # "missing" /\ kind = "block"

\* alignment_boundary with the offset added in both branches
alignment_boundary_offset_always(optimal_io_size, alignment_offset) ==
    IF optimal_io_size = 0
    THEN default_alignment_boundary + alignment_offset
    ELSE optimal_io_size + alignment_offset

\* blockvals['alignment_boundary']
alignment_boundary(optimal_io_size, alignment_offset) ==
    IF optimal_io_size = 0
    THEN default_alignment_boundary
    ELSE optimal_io_size + alignment_offset

\* blockvals['alignment_boundary_sectors']
alignment_boundary_sectors(boundary, physical_block_size) ==
    IntDiv(boundary, physical_block_size)

\* blockvals['first_partition_offset_sectors']
first_partition_offset_sectors(boundary, physical_block_size) ==
    IntDiv(boundary, physical_block_size)

\* blockvals['alignment_offset']: 0 when the sysfs file does not exist
read_alignment_offset(s) ==
    IF ~s.alignment_offset_present THEN 0 ELSE s.alignment_offset

\* The blockvals dictionary block_device_info returns.
block_device_info(s) ==
    LET ao == read_alignment_offset(s)
        ab == alignment_boundary(s.optimal_io_size, ao)
    IN  [size                           |-> s.size,
         optimal_io_size                |-> s.optimal_io_size,
         minimum_io_size                |-> s.minimum_io_size,
         alignment_offset               |-> ao,
         physical_block_size            |-> s.physical_block_size,
         alignment_boundary             |-> ab,
         alignment_boundary_sectors     |-> alignment_boundary_sectors(ab, s.physical_block_size),
         first_partition_offset_sectors |-> first_partition_offset_sectors(ab, s.physical_block_size)]

\* blockvals before block_device_info has returned
NoInfo ==
    [size |-> 0, optimal_io_size |-> 0, minimum_io_size |-> 0, alignment_offset |-> 0,
     physical_block_size |-> 0, alignment_boundary |-> 0, alignment_boundary_sectors |-> 0,
     first_partition_offset_sectors |-> 0]

(***************************************************************************)
(* make_alpine_rpi.py, partition_device: the sector arithmetic             *)
(***************************************************************************)

part0_size_sectors(physical_block_size) == IntDiv(sd_part0_size, physical_block_size)

part1_size_sectors(physical_block_size) == IntDiv(sd_part1_size_bytes, physical_block_size)

part2_alignment_remainder(p0, p1, boundary_sectors) == (p0 + p1) % boundary_sectors

\* the fix taken to be the remainder itself
part2_alignment_fix_remainder(boundary_sectors, remainder) == remainder

part2_alignment_fix(boundary_sectors, remainder) == boundary_sectors - remainder

part2_offset_sectors(p0, p1, fix) == p0 + p1 + fix

\* the root size with the label region left in
part2_size_sectors_no_label(total, p0, p1) == total - p1

part2_size_sectors(total, p0, p1) == total - p0 - p1

\* "{}s".format(n)
SectorArg(n) == ToString(n) \o "s"

\* the script with the flag directives ahead of the second mkpart
render_parted_script_flags_first(o1, s1, o2, s2) ==
    <<"mklabel", "msdos">>
    \o <<"mkpart", "primary", "fat32", SectorArg(o1), SectorArg(s1)>>
    \o <<"set", "1", "boot", "on">>
    \o <<"set", "1", "lba", "on">>
    \o <<"mkpart", "primary", "ext4", SectorArg(o2), SectorArg(s2)>>

\* parted_script: the words of the string, each followed by one space
render_parted_script(o1, s1, o2, s2) ==
    <<"mklabel", "msdos">>
    \o <<"mkpart", "primary", "fat32", SectorArg(o1), SectorArg(s1)>>
    \o <<"mkpart", "primary", "ext4", SectorArg(o2), SectorArg(s2)>>
    \o <<"set", "1", "boot", "on">>
    \o <<"set", "1", "lba", "on">>

(***************************************************************************)
(* make_alpine_rpi.py: check_checksums, check_update_cached_alpine_iso,    *)
(* main                                                                    *)
(***************************************************************************)

\* check_checksums that reports success whatever sha256sum says
check_checksums_always_zero(sha256sum_rc) == [exc |-> "none", returncode |-> 0]

\* check_checksums(directory, sha256file), given the status 'sha256sum -c'
\* would exit with.  The arguments of the logged_subcommand_run call are
\* evaluated first, and logger.DEBUG is not an attribute of a Logger:
\* AttributeError is raised before sha256sum is run, so no return code is
\* ever delivered.
check_checksums(sha256sum_rc) == [exc |-> "AttributeError", returncode |-> sha256sum_rc]

\* 'not blockdev': --device absent or empty
no_blockdev(device) == ~device

\* the commands whose branch calls check_update_cached_alpine_iso
fetch_commands == {"init", "file", "liveimage"}

CacheStates ==
    { c \in [tarball : BOOLEAN, sha256file : BOOLEAN,
             cached_rc : ReturnCodes, download_rc : ReturnCodes] :
        \* sha256sum -c fails when the tarball or the hash file is missing
        ~(c.tarball /\ c.sha256file) => c.cached_rc = 1 }

ArgStates == [command : Commands, device : BOOLEAN, imagesize : ImageSizes]

\* args when partition_device is entered on its own
NoArgs == [command |-> "", device |-> TRUE, imagesize |-> "absent"]

\* the cache when partition_device is entered on its own
NoCache == [tarball |-> FALSE, sha256file |-> FALSE, cached_rc |-> 1, download_rc |-> 1]

(***************************************************************************)
(* Initial state: main() has just been called with its arguments parsed,   *)
(* or partition_device(blockdev) has just been called.                     *)
(***************************************************************************)
SysfsStates ==
    { s \in [size : DeviceSizes,
             queue_present : BOOLEAN,
             optimal_io_size : OptimalIoSizes,
             minimum_io_size : PhysBlockSizes,
             alignment_offset_present : BOOLEAN,
             alignment_offset : AlignmentOffsets,
             physical_block_size : PhysBlockSizes] :
        /\ (~s.alignment_offset_present => s.alignment_offset = 0)
        /\ s.minimum_io_size >= s.physical_block_size }

Init ==
    /\ entry \in Entries
    /\ IF entry = "main"
       THEN /\ args \in ArgStates
            /\ cache \in CacheStates
            /\ pc = "main"
            /\ partition_device_called = FALSE
       ELSE /\ args = NoArgs
            /\ cache = NoCache
            /\ pc = "legal_check"
            /\ partition_device_called = TRUE
    /\ alpinefile = "none"
    /\ checksum_calls = <<>>
    /\ downloads = 0
    /\ exit_status = "none"
    /\ dev_kind \in DevKinds
    /\ dev_name_ok \in BOOLEAN
    /\ sysfs \in SysfsStates
    /\ error = "none"
    /\ geometry_queries = <<>>
    /\ blockdev_info = NoInfo
    /\ total_size_sectors = 0
    /\ sd_part0_size_sectors = 0
    /\ sd_part1_offset_sectors = 0
    /\ sd_part1_size_sectors = 0
    /\ sd_part2_alignment_remainder = 0
    /\ sd_part2_alignment_fix = 0
    /\ sd_part2_offset_sectors = 0
    /\ sd_part2_size_sectors = 0
    /\ parted_script = <<>>
    /\ parted_runs = <<>>

Raise(exc) ==
    /\ pc' = "raised"
    /\ error' = exc

\* sys.exit(status)
Exit(status) ==
    /\ pc' = "exited"
    /\ exit_status' = status

partition_state == <<geometry_queries, blockdev_info, locals, parted_script, parted_runs>>

(***************************************************************************)
(* main, lines 297-299: parse_size raises on a size it cannot split        *)
(***************************************************************************)
MainBadImageSize ==
    /\ pc = "main"
    /\ args.imagesize = "bad"
    /\ Raise("ValueError")
    /\ UNCHANGED <<env, caller, partition_state>>

(***************************************************************************)
(* main, lines 305-308                                                     *)
(***************************************************************************)
MainNoCommand ==
    /\ pc = "main"
    /\ args.imagesize # "bad"
    /\ args.command = ""
    /\ Exit("0")
    /\ UNCHANGED <<env, entry, args, cache, alpinefile, checksum_calls, downloads,
                   partition_device_called, error, partition_state>>

(***************************************************************************)
(* main, lines 310-319 with a command none of the branches names: main     *)
(* returns and the interpreter exits with status 0                         *)
(***************************************************************************)
MainUnknownCommand ==
    /\ pc = "main"
    /\ args.imagesize # "bad"
    /\ args.command # ""
    /\ args.command \notin fetch_commands
    /\ Exit("0")
    /\ UNCHANGED <<env, entry, args, cache, alpinefile, checksum_calls, downloads,
                   partition_device_called, error, partition_state>>

(***************************************************************************)
(* main, lines 319-322                                                     *)
(***************************************************************************)
MainLiveimageNoDevice ==
    /\ pc = "main"
    /\ args.imagesize # "bad"
    /\ args.command = "liveimage"
    /\ no_blockdev(args.device)
    /\ Exit("-1")
    /\ UNCHANGED <<env, entry, args, cache, alpinefile, checksum_calls, downloads,
                   partition_device_called, error, partition_state>>

(***************************************************************************)
(* main, lines 311, 315, 324: check_update_cached_alpine_iso is called     *)
(***************************************************************************)
MainCheckUpdate ==
    /\ pc = "main"
    /\ args.imagesize # "bad"
    /\ args.command \in fetch_commands
    /\ args.command = "liveimage" => ~no_blockdev(args.device)
    /\ pc' = "check_cached"
    /\ UNCHANGED <<env, caller, error, partition_state>>

\* check_update_cached_alpine_iso returns image_tarball_file and main goes
\* on: 'init' exits, 'file' calls create_loopback_image, 'liveimage' calls
\* partition_device.
ReturnTarball ==
    /\ alpinefile' = "image_tarball_file"
    /\ IF args.command = "init"
       THEN Exit("0") /\ UNCHANGED partition_device_called
       ELSE IF args.command = "file"
       THEN /\ pc' = "create_loopback_image"
            /\ UNCHANGED <<exit_status, partition_device_called>>
       ELSE /\ pc' = "legal_check"
            /\ partition_device_called' = TRUE
            /\ UNCHANGED exit_status
    /\ UNCHANGED error

(***************************************************************************)
(* check_update_cached_alpine_iso, line 93: the tarball or the hash file   *)
(* is not in the cache, check_checksums is not called                      *)
(***************************************************************************)
CheckCachedMissing ==
    /\ pc = "check_cached"
    /\ ~(cache.tarball /\ cache.sha256file)
    /\ pc' = "download"
    /\ UNCHANGED <<env, caller, error, partition_state>>

(***************************************************************************)
(* check_update_cached_alpine_iso, lines 93-95: both files are cached      *)
(***************************************************************************)
CheckCachedVerify ==
    /\ pc = "check_cached"
    /\ cache.tarball /\ cache.sha256file
    /\ LET r == check_checksums(cache.cached_rc)
       IN  /\ checksum_calls' = Append(checksum_calls, r)
           /\ IF r.exc # "none"
              THEN /\ Raise(r.exc)
                   /\ UNCHANGED <<alpinefile, exit_status, partition_device_called>>
              ELSE IF r.returncode = 0
              THEN ReturnTarball
              ELSE /\ pc' = "download"
                   /\ UNCHANGED <<alpinefile, exit_status, partition_device_called, error>>
    /\ UNCHANGED <<env, entry, args, cache, downloads, partition_state>>

(***************************************************************************)
(* check_update_cached_alpine_iso, lines 97-98: two curl runs              *)
(***************************************************************************)
Download ==
    /\ pc = "download"
    /\ downloads' = downloads + 2
    /\ pc' = "check_downloaded"
    /\ UNCHANGED <<env, entry, args, cache, alpinefile, checksum_calls, exit_status,
                   partition_device_called, error, partition_state>>

(***************************************************************************)
(* check_update_cached_alpine_iso, lines 99-104                            *)
(***************************************************************************)
CheckDownloaded ==
    /\ pc = "check_downloaded"
    /\ LET r == check_checksums(cache.download_rc)
       IN  /\ checksum_calls' = Append(checksum_calls, r)
           /\ IF r.exc # "none"
              THEN /\ Raise(r.exc)
                   /\ UNCHANGED <<alpinefile, exit_status, partition_device_called>>
              ELSE IF r.returncode # 0
              THEN /\ Raise("Exception")
                   /\ UNCHANGED <<alpinefile, exit_status, partition_device_called>>
              ELSE ReturnTarball
    /\ UNCHANGED <<env, entry, args, cache, downloads, partition_state>>

(***************************************************************************)
(* partition_device, lines 165-166                                         *)
(***************************************************************************)
CheckLegalFail ==
    /\ pc = "legal_check"
    /\ ~legal_block_dev_file(dev_kind)
    /\ Raise("Exception")
    /\ UNCHANGED <<env, caller, geometry_queries, blockdev_info, locals, parted_script, parted_runs>>

CheckLegalOk ==
    /\ pc = "legal_check"
    /\ legal_block_dev_file(dev_kind)
    /\ pc' = "block_device_info"
    /\ UNCHANGED <<env, caller, error, geometry_queries, blockdev_info, locals, parted_script, parted_runs>>

(***************************************************************************)
(* partition_device, line 167: blockdev_info = block_device_info(blockdev) *)
(***************************************************************************)
BlockDeviceInfoBadName ==
    /\ pc = "block_device_info"
    /\ ~dev_name_ok
    /\ geometry_queries' = Append(geometry_queries, "block_device_info")
    /\ Raise("Exception")
    /\ UNCHANGED <<env, caller, blockdev_info, locals, parted_script, parted_runs>>

BlockDeviceInfoNoQueue ==
    /\ pc = "block_device_info"
    /\ dev_name_ok
    /\ ~sysfs.queue_present
    /\ geometry_queries' = Append(geometry_queries, "block_device_info")
    /\ Raise("FileNotFoundError")
    /\ UNCHANGED <<env, caller, blockdev_info, locals, parted_script, parted_runs>>

BlockDeviceInfoOk ==
    /\ pc = "block_device_info"
    /\ dev_name_ok
    /\ sysfs.queue_present
    /\ geometry_queries' = Append(geometry_queries, "block_device_info")
    /\ blockdev_info' = block_device_info(sysfs)
    /\ pc' = "block_device_size_sectors"
    /\ UNCHANGED <<env, caller, error, locals, parted_script, parted_runs>>

(***************************************************************************)
(* partition_device, line 172                                              *)
(***************************************************************************)
BlockDeviceSizeSectors ==
    /\ pc = "block_device_size_sectors"
    /\ geometry_queries' = Append(geometry_queries, "block_device_size_sectors")
    /\ total_size_sectors' = sysfs.size
    /\ pc' = "layout"
    /\ UNCHANGED <<env, caller, error, blockdev_info, sd_part0_size_sectors, sd_part1_offset_sectors,
                   sd_part1_size_sectors, sd_part2_alignment_remainder, sd_part2_alignment_fix,
                   sd_part2_offset_sectors, sd_part2_size_sectors, parted_script, parted_runs>>

(***************************************************************************)
(* partition_device, lines 175-188                                         *)
(***************************************************************************)
LayoutZeroDivision ==
    /\ pc = "layout"
    /\ blockdev_info.alignment_boundary_sectors = 0
    /\ sd_part0_size_sectors' = part0_size_sectors(blockdev_info.physical_block_size)
    /\ sd_part1_offset_sectors' = blockdev_info.first_partition_offset_sectors
    /\ sd_part1_size_sectors' = part1_size_sectors(blockdev_info.physical_block_size)
    /\ Raise("ZeroDivisionError")
    /\ UNCHANGED <<env, caller, geometry_queries, blockdev_info, total_size_sectors,
                   sd_part2_alignment_remainder, sd_part2_alignment_fix,
                   sd_part2_offset_sectors, sd_part2_size_sectors, parted_script, parted_runs>>

Layout ==
    /\ pc = "layout"
    /\ blockdev_info.alignment_boundary_sectors # 0
    /\ LET p0  == part0_size_sectors(blockdev_info.physical_block_size)
           p1  == part1_size_sectors(blockdev_info.physical_block_size)
           rem == part2_alignment_remainder(p0, p1, blockdev_info.alignment_boundary_sectors)
           fix == part2_alignment_fix(blockdev_info.alignment_boundary_sectors, rem)
       IN  /\ sd_part0_size_sectors' = p0
           /\ sd_part1_offset_sectors' = blockdev_info.first_partition_offset_sectors
           /\ sd_part1_size_sectors' = p1
           /\ sd_part2_alignment_remainder' = rem
           /\ sd_part2_alignment_fix' = fix
           /\ sd_part2_offset_sectors' = part2_offset_sectors(p0, p1, fix)
           /\ sd_part2_size_sectors' = part2_size_sectors(total_size_sectors, p0, p1)
    /\ pc' = "script"
    /\ UNCHANGED <<env, caller, error, geometry_queries, blockdev_info, total_size_sectors,
                   parted_script, parted_runs>>

(***************************************************************************)
(* partition_device, lines 193-197                                         *)
(***************************************************************************)
BuildScript ==
    /\ pc = "script"
    /\ parted_script' = render_parted_script(sd_part1_offset_sectors, sd_part1_size_sectors,
                                             sd_part2_offset_sectors, sd_part2_size_sectors)
    /\ pc' = "parted"
    /\ UNCHANGED <<env, caller, error, geometry_queries, blockdev_info, locals, parted_runs>>

(***************************************************************************)
(* partition_device, lines 206-208: subprocess.run(parted_cmdline)         *)
(***************************************************************************)
RunParted ==
    /\ pc = "parted"
    /\ parted_runs' = Append(parted_runs, parted_script)
    /\ pc' = "logged_run"
    /\ UNCHANGED <<env, caller, error, geometry_queries, blockdev_info, locals, parted_script>>

(***************************************************************************)
(* partition_device, line 209: logged_subcommand_run(parted_cmdline, ...)  *)
(* Its first statement calls logger.log with one positional argument,      *)
(* which raises TypeError before subprocess.run is reached.                *)
(***************************************************************************)
LoggedSubcommandRun ==
    /\ pc = "logged_run"
    /\ Raise("TypeError")
    /\ UNCHANGED <<env, caller, geometry_queries, blockdev_info, locals, parted_script, parted_runs>>

Next ==
    \/ MainBadImageSize
    \/ MainNoCommand
    \/ MainUnknownCommand
    \/ MainLiveimageNoDevice
    \/ MainCheckUpdate
    \/ CheckCachedMissing
    \/ CheckCachedVerify
    \/ Download
    \/ CheckDownloaded
    \/ CheckLegalFail
    \/ CheckLegalOk
    \/ BlockDeviceInfoBadName
    \/ BlockDeviceInfoNoQueue
    \/ BlockDeviceInfoOk
    \/ BlockDeviceSizeSectors
    \/ LayoutZeroDivision
    \/ Layout
    \/ BuildScript
    \/ RunParted
    \/ LoggedSubcommandRun

Spec == Init /\ [][Next]_vars


(***************************************************************************)
(* Properties                                                              *)
(***************************************************************************)

\* block_device_info has returned its dictionary
InfoRead == blockdev_info # NoInfo

\* lines 175-188 have run to the end
LayoutComputed ==
    \/ pc \in {"script", "parted", "logged_run"}
    \/ pc = "raised" /\ error = "TypeError"

\* the parted script has been built from the layout
PlanProduced == parted_script # <<>>

\* the words that start a parted directive
DirectiveNames == {"mklabel", "mkpart", "set"}

RECURSIVE SplitDirectives(_, _)
\* the directives of a script, read as parted reads them: a directive runs
\* from its name up to the next directive name
SplitDirectives(words, acc) ==
    IF words = <<>> THEN acc
    ELSE IF Head(words) \in DirectiveNames \/ acc = <<>>
         THEN SplitDirectives(Tail(words), Append(acc, <<Head(words)>>))
         ELSE SplitDirectives(Tail(words),
                              [acc EXCEPT ![Len(acc)] = Append(acc[Len(acc)], Head(words))])

Directives(words) == SplitDirectives(words, <<>>)

\* C1: in every plan partition_device produces, the boot partition ends at or
\* before the start of the root partition:
\* boot_offset_sectors + boot_size_sectors <= root_offset_sectors.
C1_NoOverlap ==
    PlanProduced =>
        /\ sd_part1_offset_sectors = blockdev_info.alignment_boundary_sectors
        /\ sd_part2_offset_sectors =
               sd_part0_size_sectors + sd_part1_size_sectors + sd_part2_alignment_fix
        /\ sd_part1_offset_sectors + sd_part1_size_sectors <= sd_part2_offset_sectors

\* C2: when the raw remainder is 0 the alignment padding is 0 and the root
\* offset is label_sectors + boot_size_sectors; when the remainder is positive
\* the padding is alignment_boundary_sectors - raw_remainder.
C2_PaddingRule ==
    LayoutComputed =>
        /\ sd_part2_alignment_remainder = 0 =>
               /\ sd_part2_alignment_fix = 0
               /\ sd_part2_offset_sectors = sd_part0_size_sectors + sd_part1_size_sectors
        /\ sd_part2_alignment_remainder > 0 =>
               sd_part2_alignment_fix =
                   blockdev_info.alignment_boundary_sectors - sd_part2_alignment_remainder

\* C3: whenever root_size_sectors <= 0 or boot_size_sectors + label_sectors
\* exceeds total_size_sectors, partition_device fails without building or
\* executing the parted directive sequence.
C3_InsufficientCapacityRejected ==
    ( /\ LayoutComputed
      /\ \/ sd_part2_size_sectors <= 0
         \/ sd_part1_size_sectors + sd_part0_size_sectors > total_size_sectors )
    => /\ parted_script = <<>>
       /\ parted_runs = <<>>

\* C4: in every plan partition_device produces, label + boot + alignment
\* padding + root sectors do not exceed total_size_sectors.
C4_WithinDevice ==
    PlanProduced =>
        sd_part0_size_sectors + sd_part1_size_sectors + sd_part2_alignment_fix
            + sd_part2_size_sectors <= total_size_sectors

\* C5: in every plan partition_device produces, root_size_sectors is
\* total_size_sectors - label_sectors - boot_size_sectors, so the root
\* partition ends at exactly total_size_sectors + alignment_padding_sectors.
C5_RootSizeIgnoresPadding ==
    PlanProduced =>
        /\ total_size_sectors = sysfs.size
        /\ sd_part2_size_sectors + sd_part0_size_sectors + sd_part1_size_sectors
               = total_size_sectors
        /\ sd_part2_offset_sectors + sd_part2_size_sectors
               = total_size_sectors + sd_part2_alignment_fix

C5_Witness ==
    /\ parted_runs # <<>>
    /\ sd_part0_size_sectors > 0
    /\ sd_part2_size_sectors > 0
    /\ sd_part2_offset_sectors + sd_part2_size_sectors > total_size_sectors

\* C6: in every plan partition_device produces, both partition offsets are
\* multiples of alignment_boundary_sectors; the boot offset is the boundary
\* itself.
C6_OffsetsAligned ==
    PlanProduced =>
        /\ blockdev_info.alignment_boundary_sectors >= 1
        /\ sd_part1_offset_sectors = blockdev_info.alignment_boundary_sectors
        /\ sd_part1_offset_sectors % blockdev_info.alignment_boundary_sectors = 0
        /\ sd_part2_offset_sectors % blockdev_info.alignment_boundary_sectors = 0

C6_Witness ==
    /\ parted_runs # <<>>
    /\ blockdev_info.alignment_boundary_sectors > 1
    /\ sd_part2_alignment_remainder > 0

\* C7: when the path is missing or is not a block-special file,
\* partition_device raises at once: no geometry helper is called and parted
\* is never built or run.
C7_IllegalDeviceFailsFast ==
    (partition_device_called /\ dev_kind # "block") =>
        /\ pc \in {"legal_check", "raised"}
        /\ pc = "raised" => error = "Exception"
        /\ geometry_queries = <<>>
        /\ blockdev_info = NoInfo
        /\ parted_script = <<>>
        /\ parted_runs = <<>>

C7_Witness ==
    /\ partition_device_called
    /\ dev_kind = "regular"
    /\ pc = "raised"
    /\ geometry_queries = <<>>

\* C8: block_device_info sets alignment_boundary to 1 MiB when
\* optimal_io_size is 0, whatever alignment_offset is, and to
\* optimal_io_size + alignment_offset otherwise; alignment_boundary_sectors
\* and first_partition_offset_sectors are both the floor of
\* alignment_boundary / physical_block_size.
C8_AlignmentBoundary ==
    InfoRead =>
        LET ao == IF sysfs.alignment_offset_present THEN sysfs.alignment_offset ELSE 0
            ab == blockdev_info.alignment_boundary
            n  == blockdev_info.alignment_boundary_sectors
        IN  /\ sysfs.optimal_io_size = 0 => ab = 1048576
            /\ sysfs.optimal_io_size # 0 => ab = sysfs.optimal_io_size + ao
            /\ n * sysfs.physical_block_size <= ab
            /\ ab < (n + 1) * sysfs.physical_block_size
            /\ blockdev_info.first_partition_offset_sectors = n
            /\ ( /\ sysfs.optimal_io_size = 4096
                 /\ ao = 0
                 /\ sysfs.physical_block_size = 512 ) => (ab = 4096 /\ n = 8)

C8_Witness ==
    /\ InfoRead
    /\ sysfs.optimal_io_size = 0
    /\ sysfs.alignment_offset_present
    /\ sysfs.alignment_offset > 0
    /\ blockdev_info.alignment_boundary_sectors = 2048

\* C9: the label region is 1 MiB: label_sectors is the floor of
\* 1048576 / physical_block_size, 2048 sectors for a 512-byte block.
C9_LabelRegionOneMiB ==
    LayoutComputed =>
        /\ sd_part0_size_sectors * blockdev_info.physical_block_size <= 1048576
        /\ 1048576 < (sd_part0_size_sectors + 1) * blockdev_info.physical_block_size
        /\ blockdev_info.physical_block_size = 512 => sd_part0_size_sectors = 2048

\* C10: the rendered script is exactly five directives, in this order:
\* mklabel msdos; mkpart primary fat32 <boot offset>s <boot size>s;
\* mkpart primary ext4 <root offset>s <root size>s; set 1 boot on;
\* set 1 lba on.  It is the script parted is run with.
C10_FiveDirectives ==
    PlanProduced =>
        /\ Directives(parted_script) =
               << <<"mklabel", "msdos">>,
                  <<"mkpart", "primary", "fat32",
                    ToString(sd_part1_offset_sectors) \o "s",
                    ToString(sd_part1_size_sectors) \o "s">>,
                  <<"mkpart", "primary", "ext4",
                    ToString(sd_part2_offset_sectors) \o "s",
                    ToString(sd_part2_size_sectors) \o "s">>,
                  <<"set", "1", "boot", "on">>,
                  <<"set", "1", "lba", "on">> >>
        /\ \A i \in 1..Len(parted_runs) : parted_runs[i] = parted_script

C10_Witness ==
    /\ Len(parted_runs) = 1
    /\ Len(Directives(parted_runs[1])) = 5
    /\ sd_part1_offset_sectors # sd_part1_size_sectors
    /\ sd_part2_offset_sectors # sd_part2_size_sectors

\* the device has been touched: partition_device has been entered, a
\* geometry helper has been called or parted has been built or run
DeviceTouched ==
    \/ partition_device_called
    \/ geometry_queries # <<>>
    \/ blockdev_info # NoInfo
    \/ parted_script # <<>>
    \/ parted_runs # <<>>

\* the status 'sha256sum -c' gives on the files the n-th check_checksums
\* call looks at: the cached files first when both exist, the downloaded
\* ones otherwise
ActualChecksum(n) ==
    IF n = 1 /\ cache.tarball /\ cache.sha256file THEN cache.cached_rc ELSE cache.download_rc

\* C11: in a run of main the device is touched only by the liveimage command
\* with a device given, and only after check_update_cached_alpine_iso has
\* returned the tarball; it returns the tarball only when its last
\* check_checksums call returned 0 on files that do verify; when a
\* check_checksums call raises or the checksum fails, the run ends with an
\* exception and the device untouched; liveimage without --device exits
\* with -1 before any download, check or partitioning.
C11_PartitionOnlyAfterVerification ==
    entry = "main" =>
        /\ DeviceTouched =>
               /\ args.command = "liveimage"
               /\ args.device
               /\ alpinefile # "none"
        /\ alpinefile # "none" =>
               /\ checksum_calls # <<>>
               /\ checksum_calls[Len(checksum_calls)].exc = "none"
               /\ checksum_calls[Len(checksum_calls)].returncode = 0
               /\ ActualChecksum(Len(checksum_calls)) = 0
        /\ ( /\ checksum_calls # <<>>
             /\ \/ checksum_calls[Len(checksum_calls)].exc # "none"
                \/ /\ pc = "raised"
                   /\ alpinefile = "none" )
           => /\ pc = "raised"
              /\ error # "none"
              /\ ~DeviceTouched
        /\ (args.command = "liveimage" /\ ~args.device) =>
               /\ pc \in {"main", "exited", "raised"}
               /\ pc = "exited" => exit_status = "-1"
               /\ checksum_calls = <<>>
               /\ downloads = 0
               /\ ~DeviceTouched

C11_Witness ==
    /\ entry = "main"
    /\ args.command = "liveimage"
    /\ args.device
    /\ dev_kind = "block"
    /\ downloads = 2
    /\ checksum_calls # <<>>
    /\ pc = "raised"
    /\ ~DeviceTouched

=============================================================================
